---------------------------- MODULE Spec2Model ----------------------------
(***************************************************************************)
(* Model of the 1D interpolation wrappers of iwutil.                       *)
(*                                                                         *)
(*   variant = "class"     src/iwutil/interpolate.py   (PchipInterpolator, *)
(*                         LinearInterpolator, CubicSplineInterpolator)    *)
(*   variant = "strategy"  src/iwutil/interpolation.py (Interpolator1D     *)
(*                         with a method string)                           *)
(*                                                                         *)
(* Floats are modelled by integers plus the value NaN; every comparison    *)
(* goes through Lt/Gt, which are false as soon as one side is NaN, as in   *)
(* IEEE 754.  y values are carried, never inspected, by the code.  The     *)
(* scipy primitives are outside the repository: the model records the      *)
(* arguments they are called with and gives their values symbolically.     *)
(***************************************************************************)
EXTENDS Integers, Sequences, FiniteSets, TLC

\* ------------------------------------------------------------------ bounds
MaxLen == 4          \* longest x / y handed to a constructor
MaxQueryLen == 2     \* longest query array handed to __call__

\* ------------------------------------------------------------ float model
NaN == 99            \* np.nan

Numbers == 0..3                         \* finite abscissae
XVals == Numbers \cup {NaN}
QVals == (-1..4) \cup {NaN}             \* below, inside and above any domain

Lt(a, b) == a # NaN /\ b # NaN /\ a < b         \* a < b on floats
Gt(a, b) == Lt(b, a)                            \* a > b on floats

\* np.maximum: propagates NaN
Maximum(a, b) == IF a = NaN \/ b = NaN THEN NaN ELSE IF a > b THEN a ELSE b
Minimum(a, b) == IF a = NaN \/ b = NaN THEN NaN ELSE IF a < b THEN a ELSE b

\* np.maximum.accumulate(x): running maximum of x
RECURSIVE MaximumAccumulate(_)
MaximumAccumulate(a) ==
    IF Len(a) <= 1 THEN a
    ELSE LET p == MaximumAccumulate(SubSeq(a, 1, Len(a) - 1))
         IN  Append(p, Maximum(p[Len(p)], a[Len(a)]))

\* ndarray.max() / ndarray.min() of a non-empty array
ArrayMax(a) == MaximumAccumulate(a)[Len(a)]

RECURSIVE ArrayMin(_)
ArrayMin(a) ==
    IF Len(a) = 1 THEN a[1]
    ELSE Minimum(ArrayMin(SubSeq(a, 1, Len(a) - 1)), a[Len(a)])

\* a[::-1]
Reversed(a) == [i \in 1..Len(a) |-> a[Len(a) + 1 - i]]

\* variant of BoolIndex: the mask is ignored and every element is kept
BoolIndex_KeepAll(a, m) == a

\* a[mask] for a boolean mask of the same length
RECURSIVE BoolIndex(_, _)
BoolIndex(a, m) ==
    IF Len(a) = 0 THEN << >>
    ELSE LET rest == BoolIndex(SubSeq(a, 1, Len(a) - 1), SubSeq(m, 1, Len(a) - 1))
         IN  IF m[Len(a)] THEN Append(rest, a[Len(a)]) ELSE rest

\* mask.all()
All(m) == \A i \in 1..Len(m) : m[i]

\* ------------------------------------------------- _get_monotonic_mask(x)
Ge(a, b) == a # NaN /\ b # NaN /\ a >= b           \* a >= b on floats

\* variant of GetMonotonicMask: cummax[1:] >= cummax[:-1], plateaus are kept
GetMonotonicMask_Geq(a) ==
    LET cummax == MaximumAccumulate(a)
    IN  [i \in 1..Len(a) |-> IF i = 1 THEN TRUE ELSE Ge(cummax[i], cummax[i - 1])]

\* variant of GetMonotonicMask: x[1:] > x[:-1], each element against its
\* predecessor instead of the running maximum
GetMonotonicMask_Adjacent(a) ==
    [i \in 1..Len(a) |-> IF i = 1 THEN TRUE ELSE Gt(a[i], a[i - 1])]

\* variant of GetMonotonicMask: a point is kept when it exceeds x[0]
GetMonotonicMask_AboveFirst(a) == [i \in 1..Len(a) |-> i = 1 \/ Gt(a[i], a[1])]

\* mask[0] = True; mask[1:] = cummax[1:] > cummax[:-1]
GetMonotonicMask(a) ==
    LET cummax == MaximumAccumulate(a)
    IN  [i \in 1..Len(a) |-> IF i = 1 THEN TRUE ELSE Gt(cummax[i], cummax[i - 1])]

\* ------------------------------------------------------------------ state
VARIABLES
    variant,          \* "class" (interpolate.py) or "strategy" (interpolation.py)
    in_method,        \* class: the subclass; strategy: the method argument
    in_x, in_y,       \* the caller's arrays (their elements, flattened)
    in_xndim, in_yndim, \* the rank of the caller's arrays
    in_fill,          \* the fill_value argument
    in_force,         \* the force_monotonic argument
    pc,               \* position inside __init__, then "built" or "failed"
    err,              \* which check raised ValueError, "none" if none did
    method,           \* local method after defaulting
    fill_value,       \* local fill_value after defaulting
    force_monotonic,  \* local force_monotonic after defaulting
    x, y,             \* the local copies x, y of __init__
    monotonic_mask,   \* the local monotonic_mask of __init__
    self_x, self_y,   \* self._x, self._y
    self_fill_value,  \* self._fill_value
    self_method,      \* self._method (strategy variant)
    primitive_call,   \* arguments of the scipy constructor call, if one was made
    interpolator,     \* self._interpolator
    xi, out,          \* last query and its result
    call_err,         \* TRUE iff the last call on the interpolator raised
    derived,          \* object returned by the last derivative/antiderivative
    dres,             \* last evaluation of the derived object: point and value
    first,            \* the first evaluation made: its query and result, and
                      \* whether another query and then the same one followed
    cpc,              \* per concurrent caller: position inside __call__
    cxi,              \* per concurrent caller: its query
    buf               \* the arrays returned by the kernel, by buffer

inputs == <<variant, in_method, in_x, in_y, in_xndim, in_yndim, in_fill, in_force>>
locals == <<method, fill_value, force_monotonic, x, y, monotonic_mask>>
fields == <<self_x, self_y, self_fill_value, self_method, primitive_call, interpolator>>
uses   == <<derived, dres, first>>
callers == <<cpc, cxi, buf>>
calls  == <<xi, out, call_err, uses, callers>>
vars   == <<inputs, pc, err, locals, fields, calls>>

\* ----------------------------------------------------------------- inputs
Seqs(S, n) == UNION {[1..k -> S] : k \in 0..n}

\* y is paired with x by index; the code never looks at its values, so the
\* i-th ordinate is the distinct number 10 + i
Ordinates(n) == [i \in 1..n |-> 10 + i]

\* Ranks an input array can have: 1, or 2 for the column shape (n, 1), or 0
\* for a single number.  The elements of an array of rank 0 or 2 are never
\* read by the constructor, so such arrays hold zeros (x) or the ordinates (y).
Ndims(a, elementsFree) ==
    {1} \cup (IF elementsFree THEN {2} \cup (IF Len(a) = 1 THEN {0} ELSE {}) ELSE {})

Variants == {"class", "strategy"}
DefaultMethods == {"pchip", "linear", "cubic spline"}      \* _get_default_methods
MethodArgs == DefaultMethods \cup {"unset", "invalid"}
ForceArgs == {"unset", "false", "true"}

FillArgs == { [kind |-> "unset", v |-> 0],
              [kind |-> "number", v |-> 7],
              [kind |-> "extrapolate", v |-> 0],
              [kind |-> "invalid", v |-> 0] }

Scalar(v) == [shape |-> "scalar", v |-> <<v>>]      \* a number
Array(a) == [shape |-> "array", v |-> a]            \* a 1-D ndarray
NoArray == Array(<< >>)

NoFill == [kind |-> "none", v |-> 0]
NoKernel == [prim |-> "none", k |-> 0, bc_type |-> "none", extrapolate |-> FALSE, n |-> 0]

NoDerived == [op |-> "none", order |-> 0, kernel |-> NoKernel, policy |-> FALSE]
NoDres == [set |-> FALSE, q |-> 0, v |-> 0]
NoFirst == [stage |-> "unset", xi |-> NoArray, out |-> NoArray, err |-> FALSE]

\* threads that share one interpolator
Callers == {1, 2}

\* the extrapolate property: self.fill_value == "extrapolate"
Extrapolate(fv) == fv.kind = "extrapolate"

\* ------------------------------------------------- the scipy constructors
\* PchipInterpolator(x, y, extrapolate=e)
PchipArgs(n, e) == [prim |-> "pchip", k |-> 3, bc_type |-> "none", extrapolate |-> e, n |-> n]
\* make_interp_spline(x, y, k=k, bc_type=bc); the BSpline it returns extrapolates
SplineArgs(n, k, bc) == [prim |-> "spline", k |-> k, bc_type |-> bc, extrapolate |-> TRUE, n |-> n]

\* Whether the scipy constructor returns an object for these arguments:
\* PCHIP needs two points; a degree-1 spline takes no boundary condition
\* ("Too much info for k=1: bc_type can only be None") and finite abscissae;
\* a degree-3 spline needs four points with the default (not-a-knot)
\* condition and two with "natural".
PrimitiveAccepts(a, ax) ==
    /\ \A i \in 1..Len(ax) : ax[i] # NaN
    /\ IF a.prim = "pchip" THEN a.n >= 2
       ELSE IF a.k = 1 THEN a.bc_type = "none" /\ a.n >= 1
       ELSE IF a.bc_type = "none" THEN a.n >= 4 ELSE a.n >= 2

\* ------------------------------------------------------------ construction
Init ==
    /\ variant \in Variants
    /\ in_method \in (IF variant = "class" THEN DefaultMethods ELSE MethodArgs)
    /\ in_x \in Seqs(XVals, MaxLen)
    /\ in_y \in {Ordinates(n) : n \in {Len(in_x), Len(in_x) - 1} \cap (0..MaxLen)}
    /\ in_xndim \in Ndims(in_x, \A i \in 1..Len(in_x) : in_x[i] = 0)
    /\ in_yndim \in Ndims(in_y, \A i \in 1..Len(in_x) : in_x[i] = 0)
    /\ in_fill \in FillArgs
    /\ in_force \in ForceArgs
    /\ pc = IF variant = "class" /\ in_method # "cubic spline" THEN "fill" ELSE "start"
    /\ err = "none"
    /\ method = in_method
    /\ fill_value = NoFill
    /\ force_monotonic = FALSE
    /\ x = << >> /\ y = << >>
    /\ monotonic_mask = << >>
    /\ self_x = << >> /\ self_y = << >>
    /\ self_fill_value = NoFill
    /\ self_method = "none"
    /\ primitive_call = NoKernel
    /\ interpolator = NoKernel
    /\ xi = NoArray /\ out = NoArray /\ call_err = FALSE
    /\ derived = NoDerived /\ dres = NoDres /\ first = NoFirst
    /\ cpc = [c \in Callers |-> "idle"]
    /\ cxi = [c \in Callers |-> NoArray]
    /\ buf = [c \in Callers |-> << >>]

\* raise ValueError(...)
Raise(e) == pc' = "failed" /\ err' = e

\* CubicSplineInterpolator.__init__: len(x) < 4 on the caller's x, then super()
CubicSplineInit ==
    /\ pc = "start" /\ variant = "class" /\ in_method = "cubic spline"
    /\ IF in_xndim = 0 THEN Raise("len_of_unsized")         \* TypeError from len(x)
       ELSE IF Len(in_x) < 4 THEN Raise("kernel_min_points")
       ELSE pc' = "fill" /\ err' = err
    /\ UNCHANGED <<inputs, locals, fields, calls>>

\* strategy __init__: method default, then _check_method
CheckMethod ==
    /\ pc = "start" /\ variant = "strategy"
    /\ method' = IF in_method = "unset" THEN "pchip" ELSE in_method
    /\ IF method' \notin DefaultMethods THEN Raise("method")
                                        ELSE pc' = "fill" /\ err' = err
    /\ UNCHANGED <<inputs, fill_value, force_monotonic, x, y, monotonic_mask, fields, calls>>

\* variant of DefaultFillValue: an unset fill_value becomes 0
DefaultFillValue_Zero(f) == IF f.kind = "unset" THEN [kind |-> "number", v |-> 0] ELSE f

\* if fill_value is None: fill_value = np.nan
DefaultFillValue(f) == IF f.kind = "unset" THEN [kind |-> "number", v |-> NaN] ELSE f

\* fill_value default and _check_fill_value, then the force_monotonic default
CheckFillValue ==
    /\ pc = "fill"
    /\ fill_value' = DefaultFillValue(in_fill)
    /\ IF fill_value'.kind \notin {"extrapolate", "number"}
          THEN Raise("fill_value") /\ UNCHANGED force_monotonic
          ELSE /\ force_monotonic' = (in_force = "true")
               /\ pc' = "arrays" /\ err' = err
    /\ UNCHANGED <<inputs, method, x, y, monotonic_mask, fields, calls>>

\* variant of CopiesInput: np.asarray, the locals share the caller's memory
CopiesInput_AsArray == FALSE

\* np.array(x) makes a copy of the caller's array (copy=True is the default)
CopiesInput == TRUE

\* x = np.array(x); y = np.array(y); ndim and size checks
ValidateArrays ==
    /\ pc = "arrays"
    /\ x' = in_x /\ y' = in_y
    /\ IF in_xndim # 1 \/ in_yndim # 1 THEN Raise("ndim")
       ELSE IF Len(x') # Len(y') THEN Raise("length")
       ELSE IF Len(x') < 2 THEN Raise("min_points")
       ELSE pc' = "reorder" /\ err' = err
    /\ UNCHANGED <<inputs, method, fill_value, force_monotonic, monotonic_mask, fields, calls>>

\* variant of Reordered: only x is reversed
Reordered_XOnly(ax, ay) ==
    IF Gt(ax[1], ax[Len(ax)]) THEN <<Reversed(ax), ay>> ELSE <<ax, ay>>

\* variant of Reordered: the endpoint check is missing
Reordered_Never(ax, ay) == <<ax, ay>>

\* variant of Reordered: x[0] >= x[-1]
Reordered_Geq(ax, ay) ==
    IF Ge(ax[1], ax[Len(ax)]) THEN <<Reversed(ax), Reversed(ay)>> ELSE <<ax, ay>>

\* if x[0] > x[-1]: x[:] = x[::-1]; y[:] = y[::-1]
Reordered(ax, ay) ==
    IF Gt(ax[1], ax[Len(ax)]) THEN <<Reversed(ax), Reversed(ay)>> ELSE <<ax, ay>>

\* the endpoint check and reversal of __init__; x[:] = ... writes into the
\* memory x refers to, which is the caller's only if np.array did not copy
Reorder ==
    /\ pc = "reorder"
    /\ x' = Reordered(x, y)[1]
    /\ y' = Reordered(x, y)[2]
    /\ in_x' = IF CopiesInput THEN in_x ELSE x'
    /\ in_y' = IF CopiesInput THEN in_y ELSE y'
    /\ pc' = "monotonic"
    /\ UNCHANGED <<variant, in_method, in_xndim, in_yndim, in_fill, in_force, err,
                   method, fill_value, force_monotonic, monotonic_mask, fields, calls>>

\* x = x[monotonic_mask] when the mask is not all-true
Filtered(a, m) == IF ~All(m) THEN BoolIndex(a, m) ELSE a

\* variant of EnforceMonotonic: force_monotonic is ignored, a non-monotonic
\* x always raises
EnforceMonotonic_AlwaysRaises ==
    /\ pc = "monotonic"
    /\ monotonic_mask' = GetMonotonicMask(x)
    /\ IF ~All(monotonic_mask')
          THEN /\ Raise("monotonic")
               /\ UNCHANGED <<x, y, self_x, self_y, self_fill_value, self_method>>
          ELSE /\ x' = x /\ y' = y
               /\ self_x' = x /\ self_y' = y
               /\ self_fill_value' = fill_value
               /\ self_method' = IF variant = "strategy" THEN method ELSE self_method
               /\ pc' = "create" /\ err' = err
    /\ UNCHANGED <<inputs, method, fill_value, force_monotonic,
                   primitive_call, interpolator, calls>>

\* monotonic mask, the force_monotonic decision, and the stores to self
EnforceMonotonic ==
    /\ pc = "monotonic"
    /\ monotonic_mask' = GetMonotonicMask(x)
    /\ LET is_non_monotonic == ~All(monotonic_mask')
       IN  IF is_non_monotonic /\ ~force_monotonic
              THEN /\ Raise("monotonic")
                   /\ UNCHANGED <<x, y, self_x, self_y, self_fill_value, self_method>>
              ELSE /\ x' = Filtered(x, monotonic_mask')
                   /\ y' = Filtered(y, monotonic_mask')
                   /\ self_x' = x' /\ self_y' = y'
                   /\ self_fill_value' = fill_value
                   /\ self_method' = IF variant = "strategy" THEN method ELSE self_method
                   /\ pc' = "create" /\ err' = err
    /\ UNCHANGED <<inputs, method, fill_value, force_monotonic,
                   primitive_call, interpolator, calls>>

\* class variant: the subclass's _create_interpolator, on n points
CreateInterpolatorArgs(m, n, e) ==
    IF m = "pchip" THEN PchipArgs(n, e)
    ELSE IF m = "linear" THEN SplineArgs(n, 1, "none")
    ELSE SplineArgs(n, 3, IF e THEN "natural" ELSE "none")

\* strategy variant: degree chosen by _get_interpolator
\* variant of SplineDegree: every spline method is cubic
SplineDegree_AlwaysCubic(m) == 3

\* k of _get_default_methods()[method]: 1 for "linear", 3 for "cubic spline"
SplineDegree(m) == IF m = "cubic spline" THEN 3 ELSE 1

\* strategy variant: _get_pchip_interpolator / _get_spline_interpolator
GetInterpolatorArgs(m, n, e) ==
    IF m = "pchip" THEN PchipArgs(n, e)
    ELSE SplineArgs(n, SplineDegree(m), IF e THEN "natural" ELSE "none")

\* strategy variant: "if len(x) <= k: raise" of _get_interpolator
TooFewForSpline(m, n) ==
    m \in {"cubic spline", "linear"} /\ n <= SplineDegree(m)

\* self._interpolator = self._create_interpolator() / self._get_interpolator(method)
CreateInterpolator ==
    /\ pc = "create"
    /\ IF variant = "strategy" /\ TooFewForSpline(method, Len(self_x))
          THEN Raise("kernel_min_points") /\ UNCHANGED <<primitive_call, interpolator>>
          ELSE LET n == Len(self_x)
                   e == Extrapolate(self_fill_value)
                   a == IF variant = "class" THEN CreateInterpolatorArgs(in_method, n, e)
                                             ELSE GetInterpolatorArgs(method, n, e)
               IN  /\ primitive_call' = a
                   /\ IF PrimitiveAccepts(a, self_x)
                         THEN interpolator' = a /\ pc' = "built" /\ err' = err
                         ELSE Raise("primitive") /\ UNCHANGED interpolator
    /\ UNCHANGED <<inputs, locals, self_x, self_y, self_fill_value, self_method, calls>>

\* The constructor as a function of its arguments: whether it returns an
\* interpolator, the cleaned arrays and fill value it stores, and the
\* arguments it builds the scipy object with.
Construction(v, m, ax, xnd, ay, ynd, f, frc) ==
    LET Failed == [ok |-> FALSE, x |-> << >>, y |-> << >>, fill |-> NoFill, args |-> NoKernel]
        m1 == IF v = "strategy" /\ m = "unset" THEN "pchip" ELSE m
        fv == IF f.kind = "unset" THEN [kind |-> "number", v |-> NaN] ELSE f
    IN  IF v = "class" /\ m = "cubic spline" /\ (xnd = 0 \/ Len(ax) < 4) THEN Failed
        ELSE IF v = "strategy" /\ m1 \notin DefaultMethods THEN Failed
        ELSE IF fv.kind \notin {"extrapolate", "number"} THEN Failed
        ELSE IF xnd # 1 \/ ynd # 1 THEN Failed
        ELSE IF Len(ax) # Len(ay) \/ Len(ax) < 2 THEN Failed
        ELSE LET r == Reordered(ax, ay)
                 mask == GetMonotonicMask(r[1])
                 cx == Filtered(r[1], mask)
                 cy == Filtered(r[2], mask)
                 a == IF v = "class"
                         THEN CreateInterpolatorArgs(m1, Len(cx), Extrapolate(fv))
                         ELSE GetInterpolatorArgs(m1, Len(cx), Extrapolate(fv))
             IN  IF ~All(mask) /\ frc # "true" THEN Failed
                 ELSE IF v = "strategy" /\ TooFewForSpline(m1, Len(cx)) THEN Failed
                 ELSE IF ~PrimitiveAccepts(a, cx) THEN Failed
                 ELSE [ok |-> TRUE, x |-> cx, y |-> cy, fill |-> fv, args |-> a]

Next ==
    \/ CubicSplineInit
    \/ CheckMethod
    \/ CheckFillValue
    \/ ValidateArrays
    \/ Reorder
    \/ EnforceMonotonic
    \/ CreateInterpolator

Spec == Init /\ [][Next]_vars

\* -------------------------------------------------------------- evaluation
Queries == {Scalar(q) : q \in QVals} \cup {Array(a) : a \in Seqs(QVals, MaxQueryLen)}

\* Value of the scipy object k, built on (ax, ay), at the point q: the data
\* ordinate at a data abscissa, the symbolic value 20 + q between data
\* points, and beyond the data either NaN (PCHIP with extrapolate=False) or
\* the symbolic continuation 30 + q.
PrimitiveValue(k, ax, ay, q) ==
    IF q = NaN THEN NaN
    ELSE IF q < ax[1] \/ q > ax[Len(ax)]
            THEN IF k.extrapolate THEN 30 + q ELSE NaN
    ELSE IF \E i \in 1..Len(ax) : ax[i] = q
            THEN ay[CHOOSE i \in 1..Len(ax) : ax[i] = q]
    ELSE 20 + q

\* self.interpolator(xi), elementwise
Evaluate(a) == [i \in 1..Len(a) |-> PrimitiveValue(interpolator, self_x, self_y, a[i])]

\* variant of OutOfBounds: (xi <= x_min) | (xi >= x_max)
OutOfBounds_Inclusive(a) ==
    [i \in 1..Len(a) |-> Ge(ArrayMin(self_x), a[i]) \/ Ge(a[i], ArrayMax(self_x))]

\* (xi < x_min) | (xi > x_max), elementwise
OutOfBounds(a) ==
    [i \in 1..Len(a) |-> Lt(a[i], ArrayMin(self_x)) \/ Gt(a[i], ArrayMax(self_x))]

\* out[mask] = self.fill_value
Fill(o, m) == [i \in 1..Len(o) |-> IF m[i] THEN self_fill_value.v ELSE o[i]]

\* mask.any()
AnyOf(m) == \E i \in 1..Len(m) : m[i]

\* class variant: _apply_fill_value(out, xi) on a non-empty xi
ApplyFillValue(o, a) ==
    IF Extrapolate(self_fill_value) THEN o
    ELSE IF Lt(ArrayMin(a), ArrayMin(self_x)) \/ Gt(ArrayMax(a), ArrayMax(self_x))
            THEN Fill(o, OutOfBounds(a))
    ELSE o

\* class variant __call__: np.atleast_1d, the kernel, _apply_fill_value;
\* xi.min() of an empty array raises
ClassResult(q) ==
    LET a == q.v
    IN  IF ~Extrapolate(self_fill_value) /\ Len(a) = 0
           THEN [err |-> TRUE, out |-> NoArray]
           ELSE [err |-> FALSE, out |-> Array(ApplyFillValue(Evaluate(a), a))]

CallClass(q) ==
    /\ variant = "class"
    /\ xi' = q
    /\ call_err' = ClassResult(q).err
    /\ out' = ClassResult(q).out

\* strategy variant __call__: the kernel on xi as given, then the mask
StrategyResult(q) ==
    LET a == q.v
        o == Evaluate(a)
        mask == OutOfBounds(a)
    IN  [err |-> FALSE,
         out |-> [shape |-> q.shape,
                  v |-> IF Extrapolate(self_fill_value) THEN o
                        ELSE IF AnyOf(mask) THEN Fill(o, mask) ELSE o]]

CallStrategy(q) ==
    /\ variant = "strategy"
    /\ xi' = q
    /\ call_err' = StrategyResult(q).err
    /\ out' = StrategyResult(q).out

\* interp(xi) on a constructed interpolator
Call ==
    /\ pc = "built"
    /\ \E q \in Queries : CallClass(q) \/ CallStrategy(q)
    /\ pc' = "called"
    /\ UNCHANGED <<inputs, err, locals, fields, uses, callers>>

\* constructions that can end in an interpolator: finite abscissae, paired
\* ordinates, a recognised method and fill value
InitCall ==
    /\ Init
    /\ in_method # "invalid"
    /\ in_fill.kind # "invalid"
    /\ Len(in_x) >= 2 /\ Len(in_y) = Len(in_x)
    /\ in_xndim = 1 /\ in_yndim = 1
    /\ \A i \in 1..Len(in_x) : in_x[i] # NaN

NextCall == Next \/ Call

SpecCall == InitCall /\ [][NextCall]_vars

\* ------------------------------------------- _get_monotonic_mask on its own
InitMask ==
    /\ Init
    /\ variant = "class" /\ in_method = "pchip" /\ in_fill.kind = "unset"
    /\ in_force = "unset" /\ Len(in_y) = Len(in_x)
    /\ in_xndim = 1 /\ in_yndim = 1
    /\ Len(in_x) >= 1

\* monotonic_mask = _get_monotonic_mask(x) for an arbitrary non-empty x
MonotonicMask ==
    /\ pc = "fill" /\ monotonic_mask = << >>
    /\ x' = in_x
    /\ monotonic_mask' = GetMonotonicMask(in_x)
    /\ pc' = "mask"
    /\ UNCHANGED <<inputs, err, method, fill_value, force_monotonic, y, fields, calls>>

NextMask == MonotonicMask

SpecMask == InitMask /\ [][NextMask]_vars

\* ---- repeated use of one interpolator ----

\* orders passed to derivative and antiderivative
Orders == {1, 2}

\* query points of the repeated calls: below, inside and above the data, and NaN
UseQVals == {-1, 1, 4, NaN}

\* queries of the repeated calls: scalars, the empty array, one-point arrays
\* and two-point arrays mixing a point inside with a point outside
UseQueries ==
    {Scalar(q) : q \in UseQVals} \cup {Array(a) : a \in Seqs(UseQVals, 1)}
        \cup {Array(<<-1, 1>>), Array(<<1, 4>>)}

\* interp(xi) in either variant: the returned array, or that the call raised
CallResult(q) == IF variant = "class" THEN ClassResult(q) ELSE StrategyResult(q)

\* kernel.derivative(order): a spline of degree k - order (scipy refuses an
\* order above the degree of a B-spline; a PCHIP piecewise polynomial
\* bottoms out at degree 0)
DerivativeOf(k, order) ==
    [k EXCEPT !.k = IF k.k >= order THEN k.k - order ELSE 0]

DerivativeRaises(k, order) == k.prim = "spline" /\ order > k.k

\* kernel.antiderivative(order): degree k + order
AntiderivativeOf(k, order) == [k EXCEPT !.k = k.k + order]

\* variant of Returned: the object is wrapped so that evaluating it applies
\* the boundary policy of the interpolator
Returned_Wrapped(d) == [d EXCEPT !.policy = TRUE]

\* return self.interpolator.derivative(order): the scipy object itself
Returned(d) == d

\* Value at q of an object derived from a kernel built on ax: NaN at NaN;
\* beyond the data NaN for a piecewise polynomial derived from a PCHIP with
\* extrapolate=False, else the symbolic continuation 50 + q; the symbolic
\* value 40 + q on the data interval
DerivedValue(k, ax, q) ==
    IF q = NaN THEN NaN
    ELSE IF q < ax[1] \/ q > ax[Len(ax)]
            THEN IF k.extrapolate THEN 50 + q ELSE NaN
    ELSE 40 + q

\* variant of StoredKernel: the derived object replaces self._interpolator
StoredKernel_Replaced(k, d) == d

\* derivative and antiderivative return the new object and assign nothing:
\* self._interpolator stays the kernel k
StoredKernel(k, d) == k

\* interp(xi), any number of times
Evaluation ==
    /\ pc \in {"built", "called"}
    /\ \E q \in UseQueries :
          LET r == CallResult(q)
          IN  /\ xi' = q /\ out' = r.out /\ call_err' = r.err
              /\ first' = IF first.stage = "unset"
                             THEN [stage |-> "once", xi |-> q, out |-> r.out, err |-> r.err]
                          ELSE IF first.stage = "once" /\ q # first.xi
                             THEN [first EXCEPT !.stage = "other"]
                          ELSE IF first.stage = "other" /\ q = first.xi
                             THEN [first EXCEPT !.stage = "again"]
                          ELSE first
    /\ pc' = "called"
    /\ UNCHANGED <<inputs, err, locals, fields, derived, dres, callers>>

\* interp.derivative(order); the strategy variant has no such method
Derivative ==
    /\ pc \in {"built", "called"}
    /\ \E order \in Orders :
          IF variant = "strategy" \/ DerivativeRaises(interpolator, order)
             THEN derived' = NoDerived /\ call_err' = TRUE /\ UNCHANGED interpolator
             ELSE /\ derived' = Returned([op |-> "derivative", order |-> order,
                                          kernel |-> DerivativeOf(interpolator, order),
                                          policy |-> FALSE])
                  /\ call_err' = FALSE
                  /\ interpolator' = StoredKernel(interpolator, derived'.kernel)
    /\ pc' = "called"
    /\ dres' = NoDres
    /\ UNCHANGED <<inputs, err, locals, self_x, self_y, self_fill_value, self_method,
                   primitive_call, xi, out, first, callers>>

\* interp.antiderivative(order); the strategy variant has no such method
Antiderivative ==
    /\ pc \in {"built", "called"}
    /\ \E order \in Orders :
          IF variant = "strategy"
             THEN derived' = NoDerived /\ call_err' = TRUE /\ UNCHANGED interpolator
             ELSE /\ derived' = Returned([op |-> "antiderivative", order |-> order,
                                          kernel |-> AntiderivativeOf(interpolator, order),
                                          policy |-> FALSE])
                  /\ call_err' = FALSE
                  /\ interpolator' = StoredKernel(interpolator, derived'.kernel)
    /\ pc' = "called"
    /\ dres' = NoDres
    /\ UNCHANGED <<inputs, err, locals, self_x, self_y, self_fill_value, self_method,
                   primitive_call, xi, out, first, callers>>

\* f = interp.derivative(order); f(q): the derived object at one point
EvaluateDerived ==
    /\ pc = "called" /\ derived.op # "none"
    /\ \E q \in UseQVals :
          LET v == DerivedValue(derived.kernel, self_x, q)
          IN  dres' = [set |-> TRUE, q |-> q,
                       v |-> IF derived.policy /\ ~Extrapolate(self_fill_value)
                                              /\ OutOfBounds(<<q>>)[1]
                                THEN self_fill_value.v ELSE v]
    /\ UNCHANGED <<inputs, pc, err, locals, fields, xi, out, call_err, derived, first,
                   callers>>

\* constructions from strictly monotonic data, which keep every point
InitUse ==
    /\ InitCall
    /\ in_force = "unset"
    /\ All(GetMonotonicMask(Reordered(in_x, in_y)[1]))

NextUse == Next \/ Evaluation \/ Derivative \/ Antiderivative

SpecUse == InitUse /\ [][NextUse]_vars

\* constructions with force_monotonic=True from paired rank-1 arrays whose
\* abscissae may hold NaN
InitForced ==
    /\ Init
    /\ in_force = "true"
    /\ in_method # "invalid"
    /\ in_fill.kind # "invalid"
    /\ Len(in_x) >= 2 /\ Len(in_y) = Len(in_x)
    /\ in_xndim = 1 /\ in_yndim = 1

\* queries at one point: a scalar or a one-point array
PointQueries == {Scalar(q) : q \in QVals} \cup {Array(<<q>>) : q \in QVals}

\* interp(xi) at one point on a constructed interpolator
CallAtPoint ==
    /\ pc = "built"
    /\ \E q \in PointQueries : CallClass(q) \/ CallStrategy(q)
    /\ pc' = "called"
    /\ UNCHANGED <<inputs, err, locals, fields, uses, callers>>

NextForced == Next \/ CallAtPoint

SpecForced == InitForced /\ [][NextForced]_vars

\* derived objects and their evaluation
NextDerived == Next \/ Derivative \/ Antiderivative \/ EvaluateDerived

SpecDerived == InitUse /\ [][NextDerived]_vars

\* ---- concurrent callers of one interpolator ----

\* variant of OutBuffer: every call writes its result into one array
OutBuffer_Shared(c) == 1

\* out = self.interpolator(xi): the kernel returns a new array to each call,
\* and out is a local of that call
OutBuffer(c) == c

\* caller c enters interp(xi) with its own query
Begin(c) ==
    /\ pc = "built" /\ cpc[c] = "idle"
    /\ \E q \in UseQueries : cxi' = [cxi EXCEPT ![c] = q]
    /\ cpc' = [cpc EXCEPT ![c] = "kernel"]
    /\ UNCHANGED <<inputs, pc, err, locals, fields, xi, out, call_err, uses, buf>>

\* caller c: out = self.interpolator(xi)
KernelStep(c) ==
    /\ cpc[c] = "kernel"
    /\ buf' = [buf EXCEPT ![OutBuffer(c)] = Evaluate(cxi[c].v)]
    /\ cpc' = [cpc EXCEPT ![c] = "fill"]
    /\ UNCHANGED <<inputs, pc, err, locals, fields, xi, out, call_err, uses, cxi>>

\* caller c: the boundary policy on out, then return; reads self.fill_value
\* and self.x, writes out[mask]; a boolean index of another length raises
FillStep(c) ==
    /\ cpc[c] = "fill"
    /\ LET a == cxi[c].v
           o == buf[OutBuffer(c)]
       IN  IF Extrapolate(self_fill_value)
              THEN cpc' = [cpc EXCEPT ![c] = "done"] /\ UNCHANGED buf
           ELSE IF (variant = "class" /\ Len(a) = 0) \/ Len(o) # Len(a)
              THEN cpc' = [cpc EXCEPT ![c] = "raised"] /\ UNCHANGED buf
           ELSE /\ buf' = [buf EXCEPT ![OutBuffer(c)] =
                              IF variant = "class" THEN ApplyFillValue(o, a)
                              ELSE IF AnyOf(OutOfBounds(a)) THEN Fill(o, OutOfBounds(a))
                              ELSE o]
                /\ cpc' = [cpc EXCEPT ![c] = "done"]
    /\ UNCHANGED <<inputs, pc, err, locals, fields, xi, out, call_err, uses, cxi>>

InitConc == InitUse

NextConc == Next \/ \E c \in Callers : Begin(c) \/ KernelStep(c) \/ FillStep(c)

SpecConc == InitConc /\ [][NextConc]_vars

\* ================================================================== claims
StrictlyIncreasing(a) == \A i \in 1..(Len(a) - 1) : Lt(a[i], a[i + 1])
StrictlyDecreasing(a) == \A i \in 1..(Len(a) - 1) : Gt(a[i], a[i + 1])

\* minimum point count of a kernel variant
MinPoints(m) == IF m = "cubic spline" THEN 4 ELSE 2

\* the kernel variant a construction selects
Kernel == IF variant = "class" THEN in_method ELSE method

Done == pc \in {"built", "failed"}

\* the constructor ran to the end on the caller's arguments as the function says
ConstructionAgrees ==
    Done =>
        LET r == Construction(variant, in_method, in_x, in_xndim, in_y, in_yndim,
                              in_fill, in_force)
        IN  /\ r.ok = (pc = "built")
            /\ r.ok => (r.x = self_x /\ r.y = self_y)

\* q lies below / above every cleaned abscissa
BelowDomain(q) == \A j \in 1..Len(self_x) : Lt(q, self_x[j])
AboveDomain(q) == \A j \in 1..Len(self_x) : Gt(q, self_x[j])

\* C1: without extrapolation every entry of the result is the fill value
\* where the query entry lies outside [min x, max x] and the kernel's own
\* value elsewhere; with extrapolation the result is the kernel's output.
C1_FillOutsideKernelInside ==
    (pc = "called" /\ ~call_err) =>
        /\ Len(out.v) = Len(xi.v)
        /\ \A i \in 1..Len(xi.v) :
              out.v[i] =
                 IF ~Extrapolate(self_fill_value)
                    /\ (BelowDomain(xi.v[i]) \/ AboveDomain(xi.v[i]))
                 THEN self_fill_value.v
                 ELSE PrimitiveValue(interpolator, self_x, self_y, xi.v[i])

\* C2: when fewer points than the kernel's minimum remain after cleaning,
\* construction fails by the library's own check and the scipy constructor
\* is never called.
C2_NoPrimitiveCallBelowMinimum ==
    (pc \in {"create", "built", "failed"} /\ Len(self_x) >= 1
        /\ Len(self_x) < MinPoints(Kernel)) =>
        /\ primitive_call = NoKernel
        /\ Done => (pc = "failed" /\ err = "kernel_min_points")

\* C3: for strictly increasing x with paired y, a valid method and a valid
\* fill value, construction succeeds iff the number of points reaches the
\* kernel's minimum.
C3_SucceedsIffEnoughPoints ==
    (Done /\ StrictlyIncreasing(in_x) /\ Len(in_y) = Len(in_x)
        /\ in_method # "invalid" /\ in_fill.kind # "invalid") =>
        ((pc = "built") <=> (Len(in_x) >= MinPoints(Kernel)))

\* C4: once cleaning has completed, the stored x is strictly increasing and
\* as long as the stored y.
C4_CleanedStrictlyIncreasing ==
    (pc \in {"create", "built"}) =>
        (StrictlyIncreasing(self_x) /\ Len(self_x) = Len(self_y))

C4_Witness ==
    /\ pc = "create" /\ in_force = "true"
    /\ Len(self_x) >= 2 /\ Len(self_x) < Len(in_x)

\* C5: the mask has the length of x, keeps index 0, and keeps index i >= 1
\* iff x[i] is strictly greater than every earlier element.
C5_MaskIsRunningMaximumIncrease ==
    (pc = "mask") =>
        /\ Len(monotonic_mask) = Len(x)
        /\ monotonic_mask[1]
        /\ \A i \in 2..Len(x) :
              monotonic_mask[i] <=> (\A j \in 1..(i - 1) : Gt(x[i], x[j]))

C5_Witness ==
    /\ pc = "mask" /\ Len(x) = 3
    /\ x[2] = x[1] /\ Gt(x[3], x[2])
    /\ monotonic_mask = <<TRUE, FALSE, TRUE>>

\* C6: the elements the mask selects are strictly increasing and start with
\* x[0]; a strictly increasing x is kept whole.
C6_MaskedSubsequenceIncreasing ==
    (pc = "mask") =>
        LET kept == BoolIndex(x, monotonic_mask)
        IN  /\ StrictlyIncreasing(kept)
            /\ Len(kept) >= 1 /\ kept[1] = x[1]
            /\ StrictlyIncreasing(x) => All(monotonic_mask)

C6_Witness ==
    /\ pc = "mask" /\ Len(x) = 4
    /\ Gt(x[2], x[1]) /\ Lt(x[3], x[2]) /\ Gt(x[3], x[1]) /\ Gt(x[4], x[2])
    /\ BoolIndex(x, monotonic_mask) = <<x[1], x[2], x[4]>>

\* C7: when the mask of the reordered x is not all-true, construction
\* raises unless force_monotonic is true, and with force_monotonic true it
\* goes on and stores exactly the selected elements of x and y.
C7_NonMonotonicRaisesUnlessForced ==
    [][ (pc = "monotonic" /\ ~All(GetMonotonicMask(x))) =>
           IF in_force = "true"
              THEN /\ pc' = "create"
                   /\ self_x' = BoolIndex(x, GetMonotonicMask(x))
                   /\ self_y' = BoolIndex(y, GetMonotonicMask(x))
              ELSE pc' = "failed" /\ err' = "monotonic" ]_vars

C7_Witness ==
    /\ pc = "create" /\ ~All(monotonic_mask)
    /\ Len(self_x) < Len(in_x) /\ Len(self_y) = Len(self_x)

\* C8: every cleaned pair is a pair of the caller's input, the kept pairs
\* are in the order of the (possibly reversed) input, and x and y are
\* reversed and filtered at the same indices.
C8_PairingPreserved ==
    (pc \in {"create", "built"}) =>
        \E rev \in BOOLEAN :
            \E keep \in [1..Len(in_x) -> BOOLEAN] :
                LET px == [i \in 1..Len(in_x) |->
                              IF rev THEN in_x[Len(in_x) + 1 - i] ELSE in_x[i]]
                    py == [i \in 1..Len(in_y) |->
                              IF rev THEN in_y[Len(in_y) + 1 - i] ELSE in_y[i]]
                IN  self_x = BoolIndex(px, keep) /\ self_y = BoolIndex(py, keep)

C8_Witness ==
    /\ pc = "built"
    /\ Gt(in_x[1], in_x[Len(in_x)])
    /\ Len(self_x) < Len(in_x)
    /\ self_y[1] = in_y[Len(in_y)]

\* the construction from (reverse(x), reverse(y)) with the same options
ReversedConstruction ==
    Construction(variant, in_method, Reversed(in_x), in_xndim, Reversed(in_y), in_yndim,
                 in_fill, in_force)

SameAsReversedConstruction ==
    /\ ReversedConstruction.ok = (pc = "built")
    /\ (pc = "built") => (ReversedConstruction.x = self_x /\ ReversedConstruction.y = self_y)

\* C9 as stated: for every input, constructing from (x, y) and from
\* (reverse(x), reverse(y)) both fail or both succeed with the same cleaned
\* arrays.
C9_ReorderingIdempotent ==
    Done => SameAsReversedConstruction

\* C9 amended: the same, for inputs whose endpoints differ, x[0] < x[last]
\* or x[0] > x[last].
C9_ReorderingIdempotentDistinctEnds ==
    (Done /\ Len(in_x) >= 1
        /\ (Lt(in_x[1], in_x[Len(in_x)]) \/ Gt(in_x[1], in_x[Len(in_x)]))) =>
        SameAsReversedConstruction

C9_Witness ==
    /\ pc = "built" /\ in_force = "true"
    /\ Gt(in_x[1], in_x[Len(in_x)])
    /\ Len(self_x) < Len(in_x)
    /\ ReversedConstruction.ok /\ ReversedConstruction.y = self_y

\* C10: after the endpoint check both arrays are reversed if x[0] > x[last]
\* and both are as given otherwise; a strictly decreasing x passes the
\* monotonicity check without force_monotonic and is stored reversed,
\* with y.
C10_ReversedIffFirstAboveLast ==
    /\ (pc = "monotonic") =>
          \A i \in 1..Len(in_x) :
             IF Gt(in_x[1], in_x[Len(in_x)])
                THEN x[i] = in_x[Len(in_x) + 1 - i] /\ y[i] = in_y[Len(in_x) + 1 - i]
                ELSE x[i] = in_x[i] /\ y[i] = in_y[i]
    /\ (StrictlyDecreasing(in_x) /\ Len(in_x) >= 2) =>
          /\ err # "monotonic"
          /\ (pc \in {"create", "built"}) =>
                /\ Len(self_x) = Len(in_x) /\ Len(self_y) = Len(in_x)
                /\ \A i \in 1..Len(in_x) :
                      self_x[i] = in_x[Len(in_x) + 1 - i] /\ self_y[i] = in_y[Len(in_x) + 1 - i]

C10_Witness ==
    /\ pc = "built" /\ in_force = "unset"
    /\ Len(in_x) >= 3 /\ StrictlyDecreasing(in_x)
    /\ self_x[1] = in_x[Len(in_x)] /\ self_y[1] = in_y[Len(in_y)]

\* x or y is not one-dimensional
BadRank == in_xndim # 1 \/ in_yndim # 1

\* construction ended by raising ValueError
RaisedValueError == pc = "failed" /\ err \notin {"none", "len_of_unsized"}

\* C11: construction fails with ValueError whenever x or y is not of rank 1,
\* or the lengths differ, or there are fewer than 2 points, whatever the
\* method, fill value and force_monotonic; of these three checks the rank
\* check comes first, then the length equality, then the minimum count.
C11_ShapeChecksRaiseValueError ==
    Done =>
        /\ (BadRank \/ Len(in_x) # Len(in_y) \/ Len(in_x) < 2) => RaisedValueError
        /\ (err \in {"ndim", "length", "min_points"}) =>
              err = IF BadRank THEN "ndim"
                    ELSE IF Len(in_x) # Len(in_y) THEN "length"
                    ELSE "min_points"

\* the rules of each validation stage that the caller's arguments break
BreaksMethod == variant = "strategy" /\ in_method = "invalid"
BreaksFill == in_fill.kind = "invalid"
BreaksShape == BadRank \/ Len(in_x) # Len(in_y) \/ Len(in_x) < 2
BreaksMonotonic ==
    /\ ~BreaksShape
    /\ ~All(GetMonotonicMask(Reordered(in_x, in_y)[1]))
    /\ in_force # "true"
BreaksSampleSet == BreaksShape \/ BreaksMonotonic

\* the validation stage an error belongs to
StageOf(e) ==
    IF e = "method" THEN 1
    ELSE IF e = "fill_value" THEN 2
    ELSE IF e \in {"ndim", "length", "min_points", "monotonic"} THEN 3
    ELSE IF e \in {"kernel_min_points", "len_of_unsized"} THEN 4
    ELSE 5

\* C12: the failure reported belongs to the earliest stage, in the order
\* method name, fill value, SampleSet build, kernel minimum, kernel build,
\* whose rule the input breaks; in particular the kernel minimum-point
\* failure is not reported for an input with an invalid fill value or a
\* rank, length or monotonicity violation.
C12_EarliestStageReported ==
    (pc = "failed") =>
        /\ StageOf(err) > 1 => ~BreaksMethod
        /\ StageOf(err) > 2 => ~BreaksFill
        /\ StageOf(err) > 3 => ~BreaksSampleSet

KernelOf(m) ==
    IF m = "pchip" THEN [prim |-> "pchip", k |-> 3]
    ELSE IF m = "linear" THEN [prim |-> "spline", k |-> 1]
    ELSE [prim |-> "spline", k |-> 3]

StoredMethod == IF in_method = "unset" THEN "pchip" ELSE in_method

\* C14: in the strategy variant an unset method resolves to "pchip", the
\* three valid names are stored unchanged and select PCHIP, the degree-1
\* spline and the degree-3 spline, and any other name fails with the method
\* error before fill_value, x and y are examined.
C14_MethodDispatch ==
    (variant = "strategy") =>
        /\ (pc \in {"create", "built"}) =>
              (self_method = StoredMethod /\ self_method \in DefaultMethods)
        /\ (primitive_call # NoKernel) =>
              (primitive_call.prim = KernelOf(StoredMethod).prim
               /\ primitive_call.k = KernelOf(StoredMethod).k)
        /\ (Done /\ in_method = "invalid") =>
              (pc = "failed" /\ err = "method" /\ fill_value = NoFill
               /\ x = << >> /\ y = << >> /\ monotonic_mask = << >>)
        /\ (err = "method") => in_method = "invalid"

C14_Witness ==
    /\ variant = "strategy" /\ pc = "built"
    /\ in_method = "linear" /\ self_method = "linear"
    /\ interpolator.prim = "spline" /\ interpolator.k = 1

C14_WitnessDefault ==
    /\ variant = "strategy" /\ pc = "built"
    /\ in_method = "unset" /\ self_method = "pchip" /\ interpolator.prim = "pchip"

\* C15: in both variants PCHIP receives the boolean extrapolate flag, the
\* linear kernel never receives a boundary hint, and the cubic spline
\* receives "natural" exactly when extrapolating.
C15_BoundaryHint ==
    (primitive_call # NoKernel) =>
        LET e == Extrapolate(self_fill_value) IN
        /\ primitive_call.prim = "pchip" =>
              (primitive_call.extrapolate = e /\ primitive_call.bc_type = "none")
        /\ (primitive_call.prim = "spline" /\ primitive_call.k = 1) =>
              primitive_call.bc_type = "none"
        /\ (primitive_call.prim = "spline" /\ primitive_call.k = 3) =>
              primitive_call.bc_type = (IF e THEN "natural" ELSE "none")

OtherVariant == IF variant = "class" THEN "strategy" ELSE "class"

\* C16: for every input the class variant and the strategy variant either
\* both fail or both succeed, and when they succeed they hold the same
\* cleaned x and y, the same fill value and hence extrapolate flag, and pass
\* the same arguments to the primitive.
C16_VariantsEquivalent ==
    (Done /\ in_method \in DefaultMethods) =>
        LET o == Construction(OtherVariant, in_method, in_x, in_xndim, in_y, in_yndim,
                              in_fill, in_force)
        IN  /\ o.ok = (pc = "built")
            /\ o.ok => /\ o.x = self_x /\ o.y = self_y
                       /\ o.fill = self_fill_value
                       /\ Extrapolate(o.fill) = Extrapolate(self_fill_value)
                       /\ o.args = primitive_call

\* C17: in both variants an evaluation returns a sequence with as many
\* entries as the query, a scalar query counting as a length-1 sequence,
\* and the i-th entry is the kernel's value at query[i] or the fill value.
C17_ResultLengthMatchesQuery ==
    (pc = "called") =>
        /\ ~call_err
        /\ out.shape = "array"
        /\ Len(out.v) = Len(xi.v)
        /\ \A i \in 1..Len(xi.v) :
              \/ out.v[i] = PrimitiveValue(interpolator, self_x, self_y, xi.v[i])
              \/ (~Extrapolate(self_fill_value) /\ out.v[i] = self_fill_value.v)

\* C18: no step of a construction changes the caller's x or y, whether the
\* input is reversed, filtered, accepted or rejected.
C18_CallerBuffersUntouched == [][in_x' = in_x /\ in_y' = in_y]_vars

\* a construction that reversed and filtered its input
C18_Witness ==
    /\ pc = "built"
    /\ Gt(in_x[1], in_x[Len(in_x)])
    /\ Len(self_x) < Len(in_x)
    /\ self_x # in_x /\ self_y # in_y

\* a rejected construction whose input had to be reversed
C18_WitnessFailed ==
    /\ pc = "failed" /\ err = "monotonic"
    /\ Gt(in_x[1], in_x[Len(in_x)])
    /\ x = Reversed(in_x)

Built == pc \in {"built", "called"}

\* C19: once built, no evaluate, derivative or antiderivative call changes
\* the stored x, y, fill value, method or kernel, and an evaluation of the
\* query of the first evaluation returns what the first evaluation returned.
C19_StatelessAfterConstruction ==
    [][Built =>
          /\ fields' = fields
          /\ (first'.stage # "unset" /\ xi' = first'.xi) => out' = first'.out]_vars

\* the first query evaluated again after other queries and derived objects
C19_Witness ==
    /\ first.stage = "again" /\ xi = first.xi /\ out = first.out
    /\ derived.op = "derivative"
    /\ ~Extrapolate(self_fill_value)
    /\ \E i \in 1..Len(xi.v) : Lt(xi.v[i], self_x[1])

\* C20: whatever the interleaving of the callers' steps, a caller that has
\* returned holds the result a sequential evaluation of its query gives, a
\* caller raises only when the sequential evaluation raises, and no step of
\* a caller changes the interpolator or the array of another caller.
C20_ConcurrentCallersGetSequentialResult ==
    /\ [](\A c \in Callers :
            /\ cpc[c] = "done" =>
                  (~CallResult(cxi[c]).err /\ buf[OutBuffer(c)] = CallResult(cxi[c]).out.v)
            /\ cpc[c] = "raised" => CallResult(cxi[c]).err)
    /\ [][pc = "built" =>
            /\ fields' = fields
            /\ \A c \in Callers : cpc'[c] = cpc[c] => buf'[c] = buf[c]]_vars

\* one caller has returned a filled result while the other, with a different
\* query, is between its kernel call and its boundary policy
C20_Witness ==
    /\ cpc[1] = "done" /\ cpc[2] = "fill"
    /\ cxi[1] # cxi[2]
    /\ ~Extrapolate(self_fill_value)
    /\ AnyOf(OutOfBounds(cxi[1].v))
    /\ buf[1] # buf[2]

\* C21: the object returned by derivative(order) or antiderivative(order) is
\* the kernel's own derived object, and evaluating it never applies the
\* boundary policy: outside the data of a non-extrapolating interpolator it
\* gives the primitive's value, not the fill value.
C21_DerivedObjectsBypassBoundaryPolicy ==
    /\ derived.op = "derivative" =>
          derived = [op |-> "derivative", order |-> derived.order,
                     kernel |-> DerivativeOf(interpolator, derived.order),
                     policy |-> FALSE]
    /\ derived.op = "antiderivative" =>
          derived = [op |-> "antiderivative", order |-> derived.order,
                     kernel |-> AntiderivativeOf(interpolator, derived.order),
                     policy |-> FALSE]
    /\ dres.set =>
          /\ dres.v = DerivedValue(derived.kernel, self_x, dres.q)
          /\ (OutOfBounds(<<dres.q>>)[1] /\ self_fill_value.kind = "number"
                 /\ self_fill_value.v # NaN) => dres.v # self_fill_value.v

\* the derivative of a non-extrapolating spline interpolator with a numeric
\* fill value, evaluated below the data
C21_Witness ==
    /\ dres.set /\ derived.op = "derivative"
    /\ self_fill_value.kind = "number" /\ self_fill_value.v # NaN
    /\ Lt(dres.q, self_x[1])
    /\ interpolator.prim = "spline"
    /\ dres.v = 50 + dres.q

\* the antiderivative of a non-extrapolating PCHIP interpolator above the data
C21_WitnessPchip ==
    /\ dres.set /\ derived.op = "antiderivative"
    /\ self_fill_value.kind = "number" /\ self_fill_value.v # NaN
    /\ Gt(dres.q, self_x[Len(self_x)])
    /\ interpolator.prim = "pchip"
    /\ dres.v = NaN

\* C22: an interpolator built from strictly increasing x returns y[i] at every
\* data abscissa x[i] that occurs in a query, the endpoints included, and
\* never the fill value there.
C22_PassesThroughData ==
    (pc = "called" /\ ~call_err /\ StrictlyIncreasing(in_x)) =>
        \A i \in 1..Len(xi.v) : \A j \in 1..Len(in_x) :
            (xi.v[i] = in_x[j]) =>
                (out.v[i] = in_y[j] /\ out.v[i] # self_fill_value.v)

\* a query holding the last data abscissa next to a point below the data,
\* on a non-extrapolating interpolator with a numeric fill value
C22_Witness ==
    /\ pc = "called" /\ ~call_err /\ StrictlyIncreasing(in_x)
    /\ self_fill_value.kind = "number" /\ self_fill_value.v # NaN
    /\ Len(xi.v) = 2
    /\ xi.v[1] = in_x[Len(in_x)] /\ out.v[1] = in_y[Len(in_x)]
    /\ Lt(xi.v[2], in_x[1]) /\ out.v[2] = self_fill_value.v

HasNaN(a) == \E i \in 1..Len(a) : a[i] = NaN

\* C23: in the class variant without extrapolation every query entry outside
\* the data is overwritten with the fill value, whatever the other entries
\* of the query are, a NaN entry included.
C23_FillPerEntryDespiteNaN ==
    (pc = "called" /\ variant = "class" /\ ~call_err
        /\ ~Extrapolate(self_fill_value)) =>
        \A i \in 1..Len(xi.v) :
            (BelowDomain(xi.v[i]) \/ AboveDomain(xi.v[i])) =>
                out.v[i] = self_fill_value.v

\* the same statement for queries without a NaN entry
C23_FillPerEntryWithoutNaN == HasNaN(xi.v) \/ C23_FillPerEntryDespiteNaN

EmptyQuery == xi.shape = "array" /\ Len(xi.v) = 0

\* C24: in both variants, extrapolating or not, evaluating an empty query
\* raises nothing and returns an empty result.
C24_EmptyQueryGivesEmptyResult ==
    (pc = "called" /\ EmptyQuery) => (~call_err /\ out = Array(<< >>))

\* the same statement outside the class variant's non-extrapolating mode
C24_EmptyQueryElsewhere ==
    (variant = "class" /\ ~Extrapolate(self_fill_value)) \/ C24_EmptyQueryGivesEmptyResult

\* index of the first occurrence of the maximum of a
FirstMaxIndex(a) ==
    CHOOSE i \in 1..Len(a) :
        a[i] = ArrayMax(a) /\ \A j \in 1..(i - 1) : a[j] # ArrayMax(a)

\* a single-point query at a raw abscissa that lies below the first one
QueryAtDroppedPoint(xr) ==
    /\ pc = "called" /\ ~call_err /\ Len(xi.v) = 1
    /\ \E j \in 1..Len(xr) : xi.v[1] = xr[j] /\ Lt(xr[j], xr[1])

ForcedDomain ==
    LET r == Reordered(in_x, in_y)
        xr == r[1]
        yr == r[2]
        n == Len(self_x)
    IN  /\ self_x[1] = xr[1] /\ self_y[1] = yr[1]
        /\ self_x[n] = ArrayMax(xr)
        /\ self_y[n] = yr[FirstMaxIndex(xr)]
        /\ \A j \in 1..Len(xr) : Lt(xr[j], xr[1]) => \A k \in 1..n : self_x[k] # xr[j]
        /\ (QueryAtDroppedPoint(xr) /\ ~Extrapolate(self_fill_value)) =>
              out.v[1] = self_fill_value.v

\* C25: after a successful construction with force_monotonic=True the first
\* cleaned point is the first point of the reordered input, the last cleaned
\* point is the first occurrence of its maximum, no point below the first
\* one is kept, and without extrapolation a query at such a dropped point
\* returns the fill value.
C25_ForcedDomain ==
    (Built /\ in_force = "true") => ForcedDomain

\* C25 amended: the same for abscissae without NaN.
C25_ForcedDomainWithoutNaN ==
    (Built /\ in_force = "true" /\ ~HasNaN(in_x)) => ForcedDomain

\* a V-shaped input pruned to the part above its first point, queried at a
\* dropped point with a numeric fill value
C25_Witness ==
    /\ in_force = "true" /\ ~HasNaN(in_x)
    /\ Len(self_x) < Len(in_x)
    /\ QueryAtDroppedPoint(Reordered(in_x, in_y)[1])
    /\ self_fill_value.kind = "number" /\ self_fill_value.v # NaN
    /\ out.v[1] = self_fill_value.v

====
